---- MODULE Spec2Model ----
(***************************************************************************)
(* SkyFarm AI service: the numeric core of ai-service/spectral.py,         *)
(* ai-service/inference.py and the alert policy of ai-service/main.py.     *)
(*                                                                         *)
(* Probabilities are integers in units of 1/100, stress percentages are    *)
(* integers in units of 1/100 of a percent.  The band values and index     *)
(* maps of spectral.py are binary floats, rounded at every operation.      *)
(* The process-wide state of inference.py (the model cache     *)
(* _MODEL, written MODEL here, and the generator behind random.gauss) is   *)
(* state of the model; every function that has no state is an operator     *)
(* applied by an action to inputs drawn from bounded sets.                 *)
(***************************************************************************)
EXTENDS Integers, Sequences, FiniteSets, TLC

VARIABLES
    bands,        \* build_feature_stack: the band mapping, key -> shape <<h, w>>
    stack_ret,    \* build_feature_stack: what the call did
    proba,        \* predict_stress: the matrix model.predict_proba returned
    shape,        \* predict_stress: the requested (H, W)
    stress_map,   \* predict_stress: what the call did
    stress_pct,   \* compute_alert_level / classify_alert: the argument
    alert_ret,    \* what compute_alert_level and classify_alert returned
    flat,         \* compute_distribution: the flattened stress map
    dist_ret,     \* compute_distribution: what the call returned
    fpc,          \* generate_forecast: position of the call
    fstart,       \* generate_forecast: the argument stress_pct
    current,      \* generate_forecast: local variable current
    day,          \* generate_forecast: loop variable day
    draws,        \* generate_forecast: the deltas random.gauss returned so far
    forecast,     \* generate_forecast: local list forecast
    rngPos,       \* draws consumed from the module-level generator of random
    MODEL,        \* inference._MODEL: 0 is None, n > 0 the object of the n-th load
    loads,        \* number of joblib.load(_MODEL_PATH) calls executed
    fileExists,   \* whether _MODEL_PATH exists on disk
    pc,           \* per thread: position inside predict_stress / _load_model
    model,        \* per thread: local variable model of predict_stress
    modelFile,    \* main.py: whether MODEL_PATH exists when the module is imported
    scalerFile,   \* main.py: whether SCALER_PATH exists when the module is imported
    artifact,     \* main.py: the columns the deployed model and scaler were fitted on
    mpc,          \* main.py: "import" before lines 47-54 have run, "serving" after
    main_model,   \* main.py: global model is not None
    main_scaler,  \* main.py: global scaler is not None
    health_ret,   \* main.py: what GET /health returned
    req,          \* main.py: the arguments of predict_stress_map and the classifier's answer
    psm_ret,      \* main.py: what predict_stress_map did
    pixel,        \* compute_ndvi / ndre / msi: one pixel of the bands nir, red, red_edge, swir
    index_ret,    \* what compute_ndvi, compute_ndre and compute_msi returned for the pixel
    index_map,    \* compute_zscore_anomaly: the argument, its shape and its elements in C order
    zscore_ret    \* compute_zscore_anomaly: what the call returned

stackVars == <<bands, stack_ret>>
predVars  == <<proba, shape, stress_map>>
alertVars == <<stress_pct, alert_ret>>
distVars  == <<flat, dist_ret>>
fcVars    == <<fpc, fstart, current, day, draws, forecast, rngPos>>
loadVars  == <<MODEL, loads, fileExists, pc, model>>
mainVars  == <<modelFile, scalerFile, artifact, mpc, main_model, main_scaler,
               health_ret, req, psm_ret>>
indexVars == <<pixel, index_ret>>
zscoreVars == <<index_map, zscore_ret>>
notStack == <<predVars, alertVars, distVars, fcVars, loadVars, mainVars, indexVars, zscoreVars>>
notPred  == <<stackVars, alertVars, distVars, fcVars, loadVars, mainVars, indexVars, zscoreVars>>
notAlert == <<stackVars, predVars, distVars, fcVars, loadVars, mainVars, indexVars, zscoreVars>>
notDist  == <<stackVars, predVars, alertVars, fcVars, loadVars, mainVars, indexVars, zscoreVars>>
notFc    == <<stackVars, predVars, alertVars, distVars, loadVars, mainVars, indexVars, zscoreVars>>
notLoad  == <<stackVars, predVars, alertVars, distVars, fcVars, mainVars, indexVars, zscoreVars>>
notMain  == <<stackVars, predVars, alertVars, distVars, fcVars, loadVars, indexVars, zscoreVars>>
notIndex == <<stackVars, predVars, alertVars, distVars, fcVars, loadVars, mainVars,
              zscoreVars>>
notZscore == <<stackVars, predVars, alertVars, distVars, fcVars, loadVars, mainVars,
               indexVars>>
vars == <<bands, stack_ret, proba, shape, stress_map, stress_pct, alert_ret,
          flat, dist_ret, fpc, fstart, current, day, draws, forecast, rngPos,
          MODEL, loads, fileExists, pc, model, modelFile, scalerFile, artifact,
          mpc, main_model, main_scaler, health_ret, req, psm_ret,
          pixel, index_ret, index_map, zscore_ret>>

(***************************************************************************)
(* Bounds of the model.                                                    *)
(***************************************************************************)
MaxH == 3
MaxW == 2

Min(a, b) == IF a <= b THEN a ELSE b
Max(a, b) == IF a >= b THEN a ELSE b
Abs(x) == IF x < 0 THEN 0 - x ELSE x

(***************************************************************************)
(* spectral.py: build_feature_stack.  A band is modelled by its 2-D shape; *)
(* the result records how the call ended, how many of the four index maps  *)
(* (ndvi, ndre, msi, zscore_ndvi) had been computed when it ended, and for *)
(* a normal return the (h, w) pair and the column order of the matrix.     *)
(***************************************************************************)
RequiredKeys == {"blue", "green", "red", "red_edge", "nir", "swir"}

Shapes == (1..MaxH) \X {1, MaxW}

BandMappings == UNION {[K -> Shapes] : K \in SUBSET RequiredKeys}

\* numpy broadcasting of two 2-D shapes
Broadcastable(s, t) ==
    /\ (s[1] = t[1] \/ s[1] = 1 \/ t[1] = 1)
    /\ (s[2] = t[2] \/ s[2] = 1 \/ t[2] = 1)

Broadcast(s, t) == <<Max(s[1], t[1]), Max(s[2], t[2])>>

Size(s) == s[1] * s[2]

FeatureColumns == <<"ndvi", "ndre", "msi", "zscore_ndvi", "nir", "swir">>

Raised(kind, n) == [status |-> kind, indices |-> n]

build_feature_stack(b) ==
    IF ~({"nir", "red", "red_edge", "swir"} \subseteq DOMAIN b)
    THEN Raised("KeyError", 0)
    ELSE LET nir      == b["nir"]
             red      == b["red"]
             red_edge == b["red_edge"]
             swir     == b["swir"]
         IN  IF ~Broadcastable(nir, red) THEN Raised("ValueError", 0)
             ELSE IF ~Broadcastable(nir, red_edge) THEN Raised("ValueError", 1)
             ELSE IF ~Broadcastable(swir, nir) THEN Raised("ValueError", 2)
             ELSE LET ndvi == Broadcast(nir, red)
                      ndre == Broadcast(nir, red_edge)
                      msi  == Broadcast(swir, nir)
                      lens == {Size(ndvi), Size(ndre), Size(msi), Size(nir), Size(swir)}
                  IN  IF Cardinality(lens) # 1 THEN Raised("ValueError", 4)
                      ELSE [status |-> "ok", indices |-> 4, shape |-> nir,
                            columns |-> FeatureColumns,
                            index_maps |-> {"ndvi", "ndre", "msi", "zscore_ndvi"}]

NotCalled == [status |-> "none"]

StackInit == bands \in BandMappings /\ stack_ret = NotCalled
StackOff  == bands = <<>> /\ stack_ret = NotCalled

BuildFeatureStack ==
    /\ stack_ret = NotCalled
    /\ stack_ret' = build_feature_stack(bands)
    /\ UNCHANGED <<bands, notStack>>

(***************************************************************************)
(* inference.py: predict_stress, lines 62-71.  proba is the (N, C) matrix  *)
(* model.predict_proba returned, a sequence of N rows of C entries.        *)
(***************************************************************************)
\* the probability 1.0 in units of 1/100
ProbOne == 100

ProbVals == {-10, 20, 30, 50, 102}
\* the values of column 0 (healthy), which predict_stress never reads
HealthyVals == {-10, 50}

MaxSide == 2
MaxC == 3
MaxEntries == 8

PredictShapes == (1..MaxSide) \X (1..MaxSide)

ProbaRows(c) == {row \in [1..c -> ProbVals] : row[1] \in HealthyVals}

ProbaMatrices(n) ==
    UNION {[1..n -> ProbaRows(c)] : c \in {k \in 2..MaxC : n * k <= MaxEntries}}

RECURSIVE SumFrom(_, _)
SumFrom(row, k) == IF k > Len(row) THEN 0 ELSE row[k] + SumFrom(row, k + 1)

\* np.clip without its upper bound
clip_lower_only(x, lo, hi) == IF x < lo THEN lo ELSE x

\* np.clip
clip(x, lo, hi) == IF x < lo THEN lo ELSE IF x > hi THEN hi ELSE x

\* the largest non-healthy probability instead of their sum
StressProb_max(row) ==
    IF Len(row) = 2 THEN row[2]
    ELSE CHOOSE m \in {row[k] : k \in 2..Len(row)} : \A k \in 2..Len(row) : row[k] <= m

\* proba[:, 1] when C == 2, else proba[:, 1:].sum(axis=1); columns are 1-based here
StressProb(row) == IF Len(row) = 2 THEN row[2] ELSE SumFrom(row, 2)

\* ndarray.reshape(shape), C order
reshape(v, s) == [r \in 1..s[1] |-> [c \in 1..s[2] |-> v[(r - 1) * s[2] + c]]]

predict_stress(p, s) ==
    LET stress_prob == [i \in 1..Len(p) |-> clip(StressProb(p[i]), 0, ProbOne)]
    IN  IF Len(p) # Size(s)
        THEN [status |-> "ValueError"]
        ELSE [status |-> "ok", map |-> reshape(stress_prob, s)]

PredictInit ==
    /\ shape \in PredictShapes
    /\ proba \in ProbaMatrices(Size(shape)) \cup ProbaMatrices(1)
    /\ stress_map = NotCalled
PredictOff == shape = <<1, 1>> /\ proba = <<>> /\ stress_map = NotCalled

PredictStress ==
    /\ stress_map = NotCalled
    /\ stress_map' = predict_stress(proba, shape)
    /\ UNCHANGED <<proba, shape, notPred>>

(***************************************************************************)
(* inference.py: compute_alert_level, and main.py: classify_alert.         *)
(* A stress percentage is an integer in units of 1/100 of a percent.       *)
(***************************************************************************)
\* 30 (inference.py line 144, main.py line 169)
SafeBelow == 3000
\* 60 (inference.py line 146, main.py line 170)
MonitorLimit == 6000
\* 100.0, the upper clip bound of generate_forecast
PctMax == 10000
\* how far outside [0, 100] the arguments of the model go
Overshoot == 500

PctInputs == (0 - Overshoot)..(PctMax + Overshoot)

\* the boundary at 60 taken as CRITICAL
compute_alert_level_excl(p) ==
    IF p < SafeBelow THEN "SAFE"
    ELSE IF p < MonitorLimit THEN "MONITOR"
    ELSE "CRITICAL"

compute_alert_level(p) ==
    IF p < SafeBelow THEN "SAFE"
    ELSE IF p <= MonitorLimit THEN "MONITOR"
    ELSE "CRITICAL"

classify_alert(p) ==
    IF p < SafeBelow THEN "SAFE"
    ELSE IF p < MonitorLimit THEN "MONITOR"
    ELSE "CRITICAL"

AlertInit ==
    /\ stress_pct \in PctInputs
    /\ alert_ret = [inference |-> "none", main |-> "none"]
AlertOff == stress_pct = 0 /\ alert_ret = [inference |-> "none", main |-> "none"]

ComputeAlertLevel ==
    /\ alert_ret.inference = "none"
    /\ alert_ret' = [alert_ret EXCEPT !.inference = compute_alert_level(stress_pct)]
    /\ UNCHANGED <<stress_pct, notAlert>>

ClassifyAlert ==
    /\ alert_ret.main = "none"
    /\ alert_ret' = [alert_ret EXCEPT !.main = classify_alert(stress_pct)]
    /\ UNCHANGED <<stress_pct, notAlert>>

(***************************************************************************)
(* inference.py: compute_distribution.  flat is stress_map.flatten(), a    *)
(* sequence of probabilities in units of 1/100; the returned percentages   *)
(* are in units of 1/100 of a percent (two decimals).                      *)
(***************************************************************************)
\* 0.3
HealthyBelow == 30
\* 0.6
CriticalFrom == 60

StressVals == {0, 15, 29, 30, 59, 60, 100}

MaxFlat == 4

FlatMaps == UNION {[1..n -> StressVals] : n \in 0..MaxFlat}

\* n / d rounded to the nearest integer, ties to even: Python's round() of a
\* non-negative value whose ties are exactly representable
RoundDiv(n, d) ==
    LET q == n \div d
        r == n % d
    IN  IF 2 * r < d THEN q
        ELSE IF 2 * r > d THEN q + 1
        ELSE IF q % 2 = 0 THEN q ELSE q + 1

HealthyCount(f)  == Cardinality({i \in DOMAIN f : f[i] < HealthyBelow})
\* the moderate bucket opened at 0.3
ModerateCount_open(f) == Cardinality({i \in DOMAIN f : f[i] > HealthyBelow /\ f[i] < CriticalFrom})
ModerateCount(f) == Cardinality({i \in DOMAIN f : f[i] >= HealthyBelow /\ f[i] < CriticalFrom})
CriticalCount(f) == Cardinality({i \in DOMAIN f : f[i] >= CriticalFrom})

\* round(count / total * 100, 2), in units of 1/100 of a percent
Percent2(count, total) == RoundDiv(count * 10000, total)

\* compute_distribution without lines 161-162: count / total is evaluated
\* with total = 0 and Python raises ZeroDivisionError
compute_distribution_unguarded(f) ==
    LET total == Len(f)
    IN  IF total = 0
        THEN [status |-> "ZeroDivisionError"]
        ELSE [healthy  |-> Percent2(HealthyCount(f), total),
              moderate |-> Percent2(ModerateCount(f), total),
              critical |-> Percent2(CriticalCount(f), total)]

compute_distribution(f) ==
    LET total == Len(f)
    IN  IF total = 0
        THEN [healthy |-> 0, moderate |-> 0, critical |-> 0]
        ELSE [healthy  |-> Percent2(HealthyCount(f), total),
              moderate |-> Percent2(ModerateCount(f), total),
              critical |-> Percent2(CriticalCount(f), total)]

DistInit == flat \in FlatMaps /\ dist_ret = NotCalled
DistOff  == flat = <<>> /\ dist_ret = NotCalled

ComputeDistribution ==
    /\ dist_ret = NotCalled
    /\ dist_ret' = compute_distribution(flat)
    /\ UNCHANGED <<flat, notDist>>

(***************************************************************************)
(* inference.py: generate_forecast.  One step of the model is one turn of  *)
(* the loop: a draw of random.gauss from the module-level generator, the   *)
(* clip, and the append.  A draw is any value of Deltas: the generator is  *)
(* seeded from the operating system, so every sequence of draws is         *)
(* possible; rngPos counts the draws the shared generator has handed out.  *)
(***************************************************************************)
\* mu = 0.8
GaussMu == 80
\* sigma = 3.5
GaussSigma == 350
\* range(1, 8)
ForecastDays == 7

Deltas == {GaussMu - GaussSigma, GaussMu, GaussMu + GaussSigma}

Starts == {0 - Overshoot, 2916, 9800, PctMax + Overshoot}

MaxDraws == 14

\* round(current, 1) of a clipped value, in tenths of a percent
round1(x) == RoundDiv(x, 10)

\* every step taken from the argument instead of the running value
NextCurrent_restart(cur, delta) == clip(fstart + delta, 0, PctMax)

\* current = float(np.clip(current + delta, 0.0, 100.0))
NextCurrent(cur, delta) == clip(cur + delta, 0, PctMax)

ForecastEntry(d, cur) ==
    [day |-> d, stress |-> round1(cur), level |-> compute_alert_level(cur)]

ForecastInit ==
    /\ fpc = "idle" /\ fstart = 0 /\ current = 0 /\ day = 0
    /\ draws = <<>> /\ forecast = <<>> /\ rngPos = 0

ForecastCall ==
    /\ fpc \in {"idle", "done"}
    /\ rngPos + ForecastDays <= MaxDraws
    /\ \E s \in Starts :
          /\ fstart' = s
          /\ current' = s
    /\ forecast' = <<>>
    /\ draws' = <<>>
    /\ day' = 1
    /\ fpc' = "loop"
    /\ UNCHANGED <<rngPos, notFc>>

ForecastStep ==
    /\ fpc = "loop"
    /\ day <= ForecastDays
    /\ \E delta \in Deltas :
          /\ current' = NextCurrent(current, delta)
          /\ draws' = Append(draws, delta)
    /\ forecast' = Append(forecast, ForecastEntry(day, current'))
    /\ rngPos' = rngPos + 1
    /\ day' = day + 1
    /\ fpc' = IF day = ForecastDays THEN "done" ELSE "loop"
    /\ UNCHANGED <<fstart, notFc>>

(***************************************************************************)
(* inference.py: _load_model and the first two lines of predict_stress,    *)
(* run by NumThreads request threads.  A step is one line of the source;   *)
(* the interpreter may switch threads between any two of them.             *)
(***************************************************************************)
NumThreads == 2

Threads == 1..NumThreads

LoadInit ==
    /\ MODEL = 0
    /\ loads = 0
    /\ fileExists \in BOOLEAN
    /\ pc = [t \in Threads |-> "idle"]
    /\ model = [t \in Threads |-> 0]

\* predict_stress is called: line 61 enters _load_model
CallPredictStress(t) ==
    /\ pc[t] = "idle"
    /\ pc' = [pc EXCEPT ![t] = "l31"]
    /\ UNCHANGED <<MODEL, loads, fileExists, model, notLoad>>

\* line 31 ignored: the file test of line 32 runs on every call
TestCache_always_checks(t) ==
    /\ pc[t] = "l31"
    /\ pc' = [pc EXCEPT ![t] = "l32"]
    /\ UNCHANGED <<MODEL, loads, fileExists, model, notLoad>>

\* line 31: if _MODEL is None
TestCache(t) ==
    /\ pc[t] = "l31"
    /\ pc' = [pc EXCEPT ![t] = IF MODEL = 0 THEN "l32" ELSE "l38"]
    /\ UNCHANGED <<MODEL, loads, fileExists, model, notLoad>>

\* lines 32-36: if not os.path.exists(_MODEL_PATH): raise FileNotFoundError
TestFile(t) ==
    /\ pc[t] = "l32"
    /\ pc' = [pc EXCEPT ![t] = IF fileExists THEN "l37" ELSE "raised"]
    /\ UNCHANGED <<MODEL, loads, fileExists, model, notLoad>>

\* line 37: _MODEL = joblib.load(_MODEL_PATH); the load raises when the file is gone
LoadModel(t) ==
    /\ pc[t] = "l37"
    /\ IF fileExists
       THEN /\ loads' = loads + 1
            /\ MODEL' = loads + 1
            /\ pc' = [pc EXCEPT ![t] = "l38"]
       ELSE /\ pc' = [pc EXCEPT ![t] = "raised"]
            /\ UNCHANGED <<MODEL, loads>>
    /\ UNCHANGED <<fileExists, model, notLoad>>

\* line 38 and line 61: return _MODEL, bound to the local variable model
ReturnModel(t) ==
    /\ pc[t] = "l38"
    /\ model' = [model EXCEPT ![t] = MODEL]
    /\ pc' = [pc EXCEPT ![t] = "l62"]
    /\ UNCHANGED <<MODEL, loads, fileExists, notLoad>>

\* lines 62-71: model.predict_proba(features) and the return of the stress map
Classify(t) ==
    /\ pc[t] = "l62"
    /\ pc' = [pc EXCEPT ![t] = "done"]
    /\ UNCHANGED <<MODEL, loads, fileExists, model, notLoad>>

\* the caller takes the result (or the exception); the thread serves the next request
Finish(t) ==
    /\ pc[t] \in {"done", "raised"}
    /\ pc' = [pc EXCEPT ![t] = "idle"]
    /\ model' = [model EXCEPT ![t] = 0]
    /\ UNCHANGED <<MODEL, loads, fileExists, notLoad>>

\* the artifact is written (train_model.py) or removed while the service runs
WriteModelFile ==
    /\ ~fileExists
    /\ fileExists' = TRUE
    /\ UNCHANGED <<MODEL, loads, pc, model, notLoad>>

RemoveModelFile ==
    /\ fileExists
    /\ fileExists' = FALSE
    /\ UNCHANGED <<MODEL, loads, pc, model, notLoad>>

LoadOff ==
    /\ MODEL = 0 /\ loads = 0 /\ fileExists = FALSE
    /\ pc = [t \in Threads |-> "idle"]
    /\ model = [t \in Threads |-> 0]

(***************************************************************************)
(* main.py: the artifacts loaded when the module is imported (lines 47-54), *)
(* GET /health and predict_stress_map as run_analysis calls it.  The two   *)
(* artifact files are the environment's: each is present or absent, and    *)
(* they were fitted either by train_model.py (FEATURE_NAMES) or on the     *)
(* columns main.py stacks.  The second column of predict_proba is an input *)
(* of the call: the classifier is whatever the artifact holds.  Column     *)
(* names are written in the vocabulary of build_feature_stack.             *)
(***************************************************************************)
MaxPixels == 2

\* train_model.py lines 44-57
FEATURE_NAMES == <<"ndvi", "ndre", "msi", "gndvi", "chl", "zscore_ndvi",
                   "nir", "red", "green", "red_edge", "swir", "evi">>

\* predict_stress_map lines 116-125: the columns of np.column_stack
MainColumns == <<"ndvi", "ndre", "msi", "zscore_ndvi", "nir", "red", "red_edge", "swir">>

Artifacts == {FEATURE_NAMES, MainColumns}

NdviVals == {-50, 40, 100}

MapShapes == {<<1, n>> : n \in 1..MaxPixels} \cup {<<n, 1>> : n \in 1..MaxPixels}

Requests ==
    UNION {[NDVI : [1..Size(s) -> NdviVals], shape : {s}, proba1 : [1..Size(s) -> ProbVals]]
             : s \in MapShapes}

\* lines 47-54 with an except clause that resets the scaler only
LoadArtifacts_keep_model(mf, sf) == [model |-> mf, scaler |-> mf /\ sf]

\* lines 47-54: either load raising FileNotFoundError leaves both globals None
LoadArtifacts(mf, sf) == [model |-> mf /\ sf, scaler |-> mf /\ sf]

\* line 128: scaler.transform(features) raises ValueError unless features has
\* as many columns as the scaler was fitted on
Transformable(cols, fit) == Len(cols) = Len(fit)

predict_stress_map(r, m, sc, fit) ==
    IF m /\ sc
    THEN IF Transformable(MainColumns, fit)
         THEN [status |-> "ok", branch |-> "model", columns |-> MainColumns,
               map |-> reshape(r.proba1, r.shape)]
         ELSE [status |-> "ValueError", branch |-> "model"]
    ELSE [status |-> "ok", branch |-> "heuristic",
          map |-> reshape([i \in 1..Len(r.NDVI) |-> clip(ProbOne - r.NDVI[i], 0, ProbOne)],
                          r.shape)]

MainInit ==
    /\ modelFile \in BOOLEAN /\ scalerFile \in BOOLEAN
    /\ artifact \in Artifacts
    /\ mpc = "import"
    /\ main_model = FALSE /\ main_scaler = FALSE
    /\ health_ret = NotCalled
    /\ req \in Requests
    /\ psm_ret = NotCalled

MainOff ==
    /\ modelFile = FALSE /\ scalerFile = FALSE
    /\ artifact = <<>>
    /\ mpc = "import"
    /\ main_model = FALSE /\ main_scaler = FALSE
    /\ health_ret = NotCalled
    /\ req = [NDVI |-> <<>>, shape |-> <<1, 1>>, proba1 |-> <<>>]
    /\ psm_ret = NotCalled

\* lines 47-54, run once when the module is imported
Startup ==
    /\ mpc = "import"
    /\ main_model' = LoadArtifacts(modelFile, scalerFile).model
    /\ main_scaler' = LoadArtifacts(modelFile, scalerFile).scaler
    /\ mpc' = "serving"
    /\ UNCHANGED <<modelFile, scalerFile, artifact, health_ret, req, psm_ret, notMain>>

\* lines 247-253
Health ==
    /\ mpc = "serving"
    /\ health_ret = NotCalled
    /\ health_ret' = [status |-> "ok", model_loaded |-> main_model]
    /\ UNCHANGED <<modelFile, scalerFile, artifact, mpc, main_model, main_scaler,
                   req, psm_ret, notMain>>

\* lines 214-218 of run_analysis: the call of predict_stress_map
PredictStressMap ==
    /\ mpc = "serving"
    /\ psm_ret = NotCalled
    /\ psm_ret' = predict_stress_map(req, main_model, main_scaler, artifact)
    /\ UNCHANGED <<modelFile, scalerFile, artifact, mpc, main_model, main_scaler,
                   health_ret, req, notMain>>

(***************************************************************************)
(* Binary floating point.  build_feature_stack casts every band to float32 *)
(* (spectral.py:83-86) and every index map is a float32 array, so each     *)
(* arithmetic step of spectral.py rounds its exact result to the nearest   *)
(* float, ties to even.  A float is <<m, e>> with value m * 2^e: zero is   *)
(* <<0, 0>>, any other float has 2^(MantBits-1) <= |m| < 2^MantBits.       *)
(* float32 has 24 bits of significand; the model keeps MantBits of them.   *)
(* Exponent overflow and underflow are outside the value sets used.        *)
(***************************************************************************)
MantBits == 4

RECURSIVE Pow2(_)
Pow2(k) == IF k = 0 THEN 1 ELSE 2 * Pow2(k - 1)

RECURSIVE BitLen(_)
BitLen(n) == IF n = 0 THEN 0 ELSE 1 + BitLen(n \div 2)

Zero == <<0, 0>>

\* the float nearest to M * 2^E, ties to even
RoundF(M, E) ==
    IF M = 0 THEN Zero
    ELSE LET a  == Abs(M)
             sg == IF M < 0 THEN 0 - 1 ELSE 1
             b  == BitLen(a)
         IN  IF b <= MantBits
             THEN <<sg * a * Pow2(MantBits - b), E - (MantBits - b)>>
             ELSE LET sh   == b - MantBits
                      q    == a \div Pow2(sh)
                      r    == a % Pow2(sh)
                      half == Pow2(sh - 1)
                      q2   == IF r > half \/ (r = half /\ q % 2 = 1) THEN q + 1 ELSE q
                  IN  IF q2 = Pow2(MantBits)
                      THEN <<sg * Pow2(MantBits - 1), E + sh + 1>>
                      ELSE <<sg * q2, E + sh>>

\* the smallest float that is >= M * 2^E, for M > 0
CeilF(M, E) ==
    LET b == BitLen(M)
    IN  IF b <= MantBits
        THEN RoundF(M, E)
        ELSE LET sh == b - MantBits
                 q  == M \div Pow2(sh)
             IN  RoundF(IF M % Pow2(sh) = 0 THEN q ELSE q + 1, E + sh)

FNeg(x) == <<0 - x[1], x[2]>>

FAbs(x) == <<Abs(x[1]), x[2]>>

\* x + y, one rounding.  An operand more than MantBits + 2 binary places
\* below the other lies under a quarter of the last place and is absorbed.
FAdd(x, y) ==
    IF x[1] = 0 THEN y
    ELSE IF y[1] = 0 THEN x
    ELSE IF x[2] - y[2] > MantBits + 2 THEN x
    ELSE IF y[2] - x[2] > MantBits + 2 THEN y
    ELSE LET e == Min(x[2], y[2])
         IN  RoundF(x[1] * Pow2(x[2] - e) + y[1] * Pow2(y[2] - e), e)

FSub(x, y) == FAdd(x, FNeg(y))

FMul(x, y) == RoundF(x[1] * y[1], x[2] + y[2])

\* x / y for y # 0, one rounding: MantBits + 2 quotient bits and a sticky bit
FDiv(x, y) ==
    IF x[1] = 0 THEN Zero
    ELSE LET sg == IF (x[1] < 0) = (y[1] < 0) THEN 1 ELSE 0 - 1
             n  == Abs(x[1]) * Pow2(MantBits + 2)
             d  == Abs(y[1])
             q  == n \div d
             st == IF n % d = 0 THEN 0 ELSE 1
         IN  RoundF(sg * (2 * q + st), x[2] - y[2] - MantBits - 3)

RECURSIVE Isqrt(_)
Isqrt(n) ==
    IF n < 2 THEN n
    ELSE LET r == 2 * Isqrt(n \div 4)
         IN  IF (r + 1) * (r + 1) <= n THEN r + 1 ELSE r

\* sqrt(x) for x >= 0, one rounding
FSqrt(x) ==
    IF x[1] = 0 THEN Zero
    ELSE LET k  == IF (x[2] - (MantBits + 3)) % 2 = 0 THEN MantBits + 3 ELSE MantBits + 4
             M  == x[1] * Pow2(k)
             r  == Isqrt(M)
             st == IF r * r = M THEN 0 ELSE 1
         IN  RoundF(2 * r + st, ((x[2] - k) \div 2) - 1)

\* x < y: the rounded difference has the sign of the exact one
FLess(x, y) == FSub(x, y)[1] < 0

\* the float of a small integer
FromInt(n) == RoundF(n, 0)

(***************************************************************************)
(* spectral.py: _safe_divide and the three index functions.  They work     *)
(* element by element, so the model applies them to one pixel.             *)
(***************************************************************************)
\* line 25: the literal 1e-10, which numpy compares as a float of the
\* array's type; 900720 * 2^-53 is 1e-10 to seven digits
SafeEps == RoundF(900720, -53)

\* the next float above x, for x > 0
FSucc(x) ==
    IF x[1] = Pow2(MantBits) - 1 THEN <<Pow2(MantBits - 1), x[2] + 1>> ELSE <<x[1] + 1, x[2]>>

One == FromInt(1)

BandVals ==
    {Zero, <<SafeEps[1], SafeEps[2] - 1>>, SafeEps, FSucc(SafeEps),
     RoundF(3, -2), One, FNeg(One)}

Pixels == [nir : BandVals, red : BandVals, red_edge : BandVals, swir : BandVals]

\* _safe_divide testing denominator != 0 only
safe_divide_zero_only(numerator, denominator) ==
    IF denominator[1] # 0 THEN FDiv(numerator, denominator) ELSE Zero

\* _safe_divide, lines 22-26; astype(np.float32) leaves a float32 as it is
safe_divide(numerator, denominator) ==
    IF FLess(SafeEps, FAbs(denominator)) THEN FDiv(numerator, denominator) ELSE Zero

compute_ndvi(nir, red) == safe_divide(FSub(nir, red), FAdd(nir, red))

compute_ndre(nir, red_edge) == safe_divide(FSub(nir, red_edge), FAdd(nir, red_edge))

compute_msi(swir, nir) == safe_divide(swir, nir)

\* no value yet
None == <<>>

IndexInit ==
    /\ pixel \in Pixels
    /\ index_ret = [ndvi |-> None, ndre |-> None, msi |-> None]

IndexOff ==
    /\ pixel = [nir |-> Zero, red |-> Zero, red_edge |-> Zero, swir |-> Zero]
    /\ index_ret = [ndvi |-> None, ndre |-> None, msi |-> None]

ComputeNdvi ==
    /\ index_ret.ndvi = None
    /\ index_ret' = [index_ret EXCEPT !.ndvi = compute_ndvi(pixel.nir, pixel.red)]
    /\ UNCHANGED <<pixel, notIndex>>

ComputeNdre ==
    /\ index_ret.ndre = None
    /\ index_ret' = [index_ret EXCEPT !.ndre = compute_ndre(pixel.nir, pixel.red_edge)]
    /\ UNCHANGED <<pixel, notIndex>>

ComputeMsi ==
    /\ index_ret.msi = None
    /\ index_ret' = [index_ret EXCEPT !.msi = compute_msi(pixel.swir, pixel.nir)]
    /\ UNCHANGED <<pixel, notIndex>>

(***************************************************************************)
(* spectral.py: compute_zscore_anomaly on a float32 index map, with the    *)
(* steps of np.nanmean and np.nanstd: the sum of the elements in order     *)
(* (numpy adds fewer than 8 elements one after the other), the division by *)
(* the count, the deviations, their squares, the mean square and its root, *)
(* each rounded to a float.  No element of the map is NaN.                 *)
(***************************************************************************)
MaxField == 3

\* line 54: sigma < 1e-9 compares two Python floats exactly, so sigma is
\* below 1e-9 iff it is below the smallest float that is >= 1e-9;
\* 1125900 * 2^-50 is 1e-9 rounded up in the seventh digit
FlatStd == CeilF(1125900, -50)

\* 2^-31, a value whose differences stay under 1e-9
Tiny == <<Pow2(MantBits - 1), 0 - 30 - MantBits>>

\* the float 1 - 2^(1 - MantBits)
NearOne == <<Pow2(MantBits) - 2, 0 - MantBits>>

FieldVals == {Zero, Tiny, NearOne, One, RoundF(-1, -1)}

FieldShapes == {<<1, n>> : n \in 1..MaxField} \cup {<<n, 1>> : n \in 1..MaxField}

IndexMaps == UNION {[shape : {sh}, data : [1..Size(sh) -> FieldVals]] : sh \in FieldShapes}

RECURSIVE FSum(_, _)
\* np.sum over the first k elements, left to right
FSum(q, k) == IF k = 0 THEN Zero ELSE FAdd(FSum(q, k - 1), q[k])

\* np.nanmean(flat), line 52
nanmean(q) == FDiv(FSum(q, Len(q)), FromInt(Len(q)))

\* np.nanstd(flat), line 53: sqrt(mean(|x - mean|^2))
nanstd(q) ==
    LET avg == nanmean(q)
        sqr == [i \in 1..Len(q) |-> FMul(FSub(q[i], avg), FSub(q[i], avg))]
    IN  FSqrt(FDiv(FSum(sqr, Len(q)), FromInt(Len(q))))

compute_zscore_anomaly(im) ==
    LET flt   == im.data
        mu    == nanmean(flt)
        sigma == nanstd(flt)
    IN  IF FLess(sigma, FlatStd)
        THEN [status |-> "ok", shape |-> im.shape, data |-> [i \in 1..Len(flt) |-> Zero]]
        ELSE [status |-> "ok", shape |-> im.shape,
              data |-> [i \in 1..Len(flt) |-> FAbs(FDiv(FSub(flt[i], mu), sigma))]]

ZscoreInit == index_map \in IndexMaps /\ zscore_ret = NotCalled

ZscoreOff == index_map = [shape |-> <<1, 1>>, data |-> <<Zero>>] /\ zscore_ret = NotCalled

ComputeZscoreAnomaly ==
    /\ zscore_ret = NotCalled
    /\ zscore_ret' = compute_zscore_anomaly(index_map)
    /\ UNCHANGED <<index_map, notZscore>>

ForecastOff == ForecastInit

(***************************************************************************)
(* Specifications.  Spec is the service process: the request threads of    *)
(* predict_stress over the shared model cache.  The others apply one       *)
(* function of the core to every input of its bounded domain.              *)
(***************************************************************************)
Init ==
    /\ LoadInit
    /\ StackOff /\ PredictOff /\ AlertOff /\ DistOff /\ ForecastOff /\ MainOff /\ IndexOff /\ ZscoreOff

Next ==
    \/ \E t \in Threads :
          \/ CallPredictStress(t)
          \/ TestCache(t)
          \/ TestFile(t)
          \/ LoadModel(t)
          \/ ReturnModel(t)
          \/ Classify(t)
          \/ Finish(t)
    \/ WriteModelFile
    \/ RemoveModelFile

Spec == Init /\ [][Next]_vars

StackSpecInit == StackInit /\ PredictOff /\ AlertOff /\ DistOff /\ ForecastOff /\ LoadOff /\ MainOff /\ IndexOff /\ ZscoreOff
StackNext == BuildFeatureStack
SpecStack == StackSpecInit /\ [][StackNext]_vars

PredictSpecInit == PredictInit /\ StackOff /\ AlertOff /\ DistOff /\ ForecastOff /\ LoadOff /\ MainOff /\ IndexOff /\ ZscoreOff
PredictNext == PredictStress
SpecPredict == PredictSpecInit /\ [][PredictNext]_vars

AlertSpecInit == AlertInit /\ StackOff /\ PredictOff /\ DistOff /\ ForecastOff /\ LoadOff /\ MainOff /\ IndexOff /\ ZscoreOff
AlertNext == ComputeAlertLevel \/ ClassifyAlert
SpecAlert == AlertSpecInit /\ [][AlertNext]_vars

DistSpecInit == DistInit /\ StackOff /\ PredictOff /\ AlertOff /\ ForecastOff /\ LoadOff /\ MainOff /\ IndexOff /\ ZscoreOff
DistNext == ComputeDistribution
SpecDist == DistSpecInit /\ [][DistNext]_vars

ForecastSpecInit == ForecastInit /\ StackOff /\ PredictOff /\ AlertOff /\ DistOff /\ LoadOff /\ MainOff /\ IndexOff /\ ZscoreOff
ForecastNext == ForecastCall \/ ForecastStep
SpecForecast == ForecastSpecInit /\ [][ForecastNext]_vars

MainSpecInit ==
    /\ MainInit
    /\ StackOff /\ PredictOff /\ AlertOff /\ DistOff /\ ForecastOff /\ LoadOff /\ IndexOff /\ ZscoreOff
MainNext == Startup \/ Health \/ PredictStressMap
SpecMain == MainSpecInit /\ [][MainNext]_vars

IndexSpecInit ==
    /\ IndexInit
    /\ StackOff /\ PredictOff /\ AlertOff /\ DistOff /\ ForecastOff /\ LoadOff /\ MainOff
    /\ ZscoreOff
IndexNext == ComputeNdvi \/ ComputeNdre \/ ComputeMsi
SpecIndex == IndexSpecInit /\ [][IndexNext]_vars

ZscoreSpecInit ==
    /\ ZscoreInit
    /\ StackOff /\ PredictOff /\ AlertOff /\ DistOff /\ ForecastOff /\ LoadOff /\ MainOff
    /\ IndexOff
ZscoreNext == ComputeZscoreAnomaly
SpecZscore == ZscoreSpecInit /\ [][ZscoreNext]_vars

(***************************************************************************)
(* Properties.                                                             *)
(***************************************************************************)

RECURSIVE SeqSum(_)
SeqSum(q) == IF q = <<>> THEN 0 ELSE Head(q) + SeqSum(Tail(q))

\* a required band is absent, or two bands differ in shape
BadBands(b) ==
    \/ RequiredKeys \ DOMAIN b # {}
    \/ \E j, k \in DOMAIN b : b[j] # b[k]

\* C1: build_feature_stack rejects every band mapping that lacks a required
\* key or holds two bands of different shapes: the call raises and returns
\* no feature matrix.  (The claim asks further that it raises before any
\* index is computed; the statement here is the weaker one.)
C1_RejectsBadInput ==
    (stack_ret # NotCalled /\ BadBands(bands)) => stack_ret.status # "ok"

\* C2: every element of the stress map predict_stress returns lies in
\* [0, 1], whatever the classifier returned; the map has the requested
\* (H, W) shape, and pixel i of the flat vector (counted from 0) is at row
\* i div W, column i mod W.
C2_StressMapInRange ==
    stress_map.status = "ok" =>
        LET H == shape[1]
            W == shape[2]
            m == stress_map.map
        IN  /\ DOMAIN m = 1..H
            /\ \A r \in 1..H : DOMAIN m[r] = 1..W
            /\ \A r \in 1..H : \A c \in 1..W : m[r][c] >= 0 /\ m[r][c] <= 100
            /\ \A i \in 0..(Len(proba) - 1) :
                  LET v == StressProb(proba[i + 1])
                  IN  m[(i \div W) + 1][(i % W) + 1] =
                          (IF v < 0 THEN 0 ELSE IF v > 100 THEN 100 ELSE v)

\* a 2 x 2 map was returned from a matrix with an entry above 1 and an entry
\* below 0 in a stress column, and the map is not symmetric
C2_Witness ==
    /\ stress_map.status = "ok"
    /\ shape = <<2, 2>>
    /\ \E i \in 1..4 : proba[i][2] > 100
    /\ \E i \in 1..4 : proba[i][2] < 0
    /\ stress_map.map[1][2] # stress_map.map[2][1]

\* C3: with C == 2 classes the stress probability of a pixel is the
\* probability of class 1; with C > 2 it is the sum of the probabilities of
\* classes 1..C-1; in both cases clamped to [0, 1].
C3_Aggregation ==
    stress_map.status = "ok" =>
        \A r \in 1..shape[1] : \A c \in 1..shape[2] :
            LET row == proba[(r - 1) * shape[2] + c]
                agg == IF Len(row) = 2 THEN row[2] ELSE SeqSum(Tail(row))
            IN  stress_map.map[r][c] = Min(Max(agg, 0), 100)

\* the pixel [0.5, 0.3, 0.2] was classified and its stress probability is 0.5
C3_Witness ==
    /\ stress_map.status = "ok"
    /\ shape = <<1, 2>>
    /\ proba[1] = <<50, 30, 20>>
    /\ stress_map.map[1][1] = 50
    /\ proba[2] = <<50, 102, 30>>
    /\ stress_map.map[1][2] = 100

\* C4: for every stress percentage in [0, 100], compute_alert_level
\* (inference.py) and classify_alert (main.py) return the same level.
C4_OnePolicy ==
    (/\ alert_ret.inference # "none"
     /\ alert_ret.main # "none"
     /\ stress_pct >= 0 /\ stress_pct <= 10000)
        => alert_ret.inference = alert_ret.main

\* C5: compute_alert_level returns SAFE exactly when stress_pct < 30,
\* MONITOR exactly when 30 <= stress_pct <= 60, CRITICAL exactly when
\* stress_pct > 60.
C5_Thresholds ==
    alert_ret.inference # "none" =>
        /\ alert_ret.inference \in {"SAFE", "MONITOR", "CRITICAL"}
        /\ alert_ret.inference = "SAFE" <=> stress_pct < 3000
        /\ alert_ret.inference = "MONITOR" <=> (stress_pct >= 3000 /\ stress_pct <= 6000)
        /\ alert_ret.inference = "CRITICAL" <=> stress_pct > 6000

\* compute_alert_level(60) returned MONITOR
C5_Witness == stress_pct = 6000 /\ alert_ret.inference = "MONITOR"

\* C6: each forecast entry's level is compute_alert_level of the stress
\* value reported in that entry (rounded to one decimal).
C6_LevelOfReportedStress ==
    \A k \in 1..Len(forecast) :
        forecast[k].level = compute_alert_level(forecast[k].stress * 10)

\* the running value after k draws when every step starts from the previous
\* step's clamped value
RECURSIVE Walk(_)
Walk(k) == IF k = 0 THEN fstart ELSE Min(Max(Walk(k - 1) + draws[k], 0), 10000)

\* C7: generate_forecast returns exactly 7 entries with day 1, 2, ..., 7 in
\* that order; each reported stress lies in [0, 100] and is the one-decimal
\* rounding of the value reached by stepping from the previous step's
\* clamped value.
C7_ForecastShape ==
    /\ fpc = "done" => Len(forecast) = 7
    /\ Len(forecast) <= 7
    /\ \A k \in 1..Len(forecast) :
          /\ forecast[k].day = k
          /\ forecast[k].stress >= 0 /\ forecast[k].stress <= 1000
          /\ 2 * Abs(10 * forecast[k].stress - Walk(k)) <= 10

\* a forecast from 105 % was returned: day 1 is clamped to 100.0 and day 2
\* steps down from the clamped value
C7_Witness ==
    /\ fpc = "done"
    /\ fstart > 10000
    /\ forecast[1].stress = 1000
    /\ forecast[2].stress = 973
    /\ forecast[7].day = 7

\* C8: for a non-empty stress map every pixel falls in exactly one of
\* healthy (< 0.3), moderate (0.3 <= p < 0.6), critical (>= 0.6); the three
\* percentages are the two-decimal roundings of the bucket shares and add up
\* to 100 within 0.01; an all-0.15 map gives 100.0 / 0.0 / 0.0.
C8_Partition ==
    (dist_ret # NotCalled /\ Len(flat) > 0) =>
        LET n  == Len(flat)
            nh == Cardinality({i \in 1..n : flat[i] < 30})
            nm == Cardinality({i \in 1..n : flat[i] >= 30 /\ flat[i] < 60})
            nc == Cardinality({i \in 1..n : flat[i] >= 60})
        IN  /\ HealthyCount(flat) + ModerateCount(flat) + CriticalCount(flat) = n
            /\ 2 * Abs(dist_ret.healthy * n - nh * 10000) <= n
            /\ 2 * Abs(dist_ret.moderate * n - nm * 10000) <= n
            /\ 2 * Abs(dist_ret.critical * n - nc * 10000) <= n
            /\ Abs(dist_ret.healthy + dist_ret.moderate + dist_ret.critical - 10000) <= 1
            /\ (\A i \in 1..n : flat[i] = 15) =>
                   dist_ret = [healthy |-> 10000, moderate |-> 0, critical |-> 0]

\* three pixels at 0.29, 0.3 and 0.6 gave 33.33 / 33.33 / 33.33
C8_Witness ==
    /\ flat = <<29, 30, 60>>
    /\ dist_ret = [healthy |-> 3333, moderate |-> 3333, critical |-> 3333]

\* C9: the artifact is loaded at most once per process, and every call
\* classifies with that one model object.
C9_LoadedOnce ==
    /\ loads <= 1
    /\ \A t, u \in Threads :
          (pc[t] \in {"l62", "done"} /\ pc[u] \in {"l62", "done"}) => model[t] = model[u]

\* C10: no core operation writes state shared across requests: a step of a
\* request leaves the model cache and the module-level random generator
\* as they were.
C10_NoSharedState == [][MODEL' = MODEL /\ rngPos' = rngPos]_vars

\* C16: compute_distribution on a stress map with zero pixels returns
\* healthy 0.0, moderate 0.0, critical 0.0 and raises nothing.
C16_EmptyMap ==
    (dist_ret # NotCalled /\ Len(flat) = 0) =>
        /\ DOMAIN dist_ret = {"healthy", "moderate", "critical"}
        /\ dist_ret.healthy = 0 /\ dist_ret.moderate = 0 /\ dist_ret.critical = 0

\* the call on the empty map returned the three zeros
C16_Witness ==
    /\ flat = <<>>
    /\ dist_ret = [healthy |-> 0, moderate |-> 0, critical |-> 0]

\* C17: a call of predict_stress that finds the cache empty and the model
\* file missing raises, binds no model and returns no stress map, and leaves
\* the cache as it was; with the file present the call loads the model into
\* the cache and goes on to classify; once a model is cached a call goes
\* straight to the cached model, file or no file, and the cache is never
\* emptied again.
C17_MissingArtifactRaises ==
    [][\A t \in Threads :
          /\ (pc[t] = "l32" /\ ~fileExists /\ pc'[t] # "l32") =>
                 (pc'[t] = "raised" /\ MODEL' = MODEL /\ model'[t] = 0)
          /\ (pc[t] = "raised" /\ pc'[t] # "raised") =>
                 (pc'[t] = "idle" /\ model'[t] = 0 /\ MODEL' = MODEL)
          /\ (pc[t] = "l32" /\ fileExists /\ pc'[t] # "l32") => pc'[t] = "l37"
          /\ (pc[t] = "l37" /\ fileExists /\ pc'[t] # "l37") =>
                 (pc'[t] = "l38" /\ MODEL' # 0)
          /\ (pc[t] = "l31" /\ MODEL # 0 /\ pc'[t] # "l31") => pc'[t] = "l38"
          /\ (pc[t] = "l38" /\ pc'[t] # "l38") =>
                 (pc'[t] = "l62" /\ model'[t] = MODEL /\ MODEL # 0)
          /\ (pc[t] = "l62" /\ pc'[t] # "l62") => pc'[t] = "done"
          /\ MODEL # 0 => MODEL' # 0
      ]_vars

\* a call raised with the file missing and the cache still empty
C17_Witness ==
    /\ pc[1] = "raised" /\ model[1] = 0
    /\ MODEL = 0 /\ loads = 0 /\ ~fileExists

\* the heuristic map clip(1 - ndvi, 0, 1) of the request, in the (H, W) shape
HeuristicMap ==
    [r \in 1..req.shape[1] |-> [c \in 1..req.shape[2] |->
        Min(Max(100 - req.NDVI[(r - 1) * req.shape[2] + c], 0), 100)]]

\* C11: once the service has started, the model_loaded flag of /health is
\* true exactly when predict_stress_map takes the model-backed branch and
\* false exactly when it returns the heuristic clip(1 - ndvi, 0, 1), also
\* when only one of the two artifact files is missing.
C11_ModeObservable ==
    (mpc = "serving" /\ health_ret # NotCalled /\ psm_ret # NotCalled) =>
        /\ health_ret.model_loaded <=> psm_ret.branch = "model"
        /\ ~health_ret.model_loaded <=>
               (psm_ret.branch = "heuristic" /\ psm_ret.status = "ok"
                   /\ psm_ret.map = HeuristicMap)
        /\ health_ret.model_loaded <=> (modelFile /\ scalerFile)

\* the model file was there and the scaler file was not: the flag is false
\* and the map is the heuristic one
C11_Witness ==
    /\ modelFile /\ ~scalerFile /\ mpc = "serving"
    /\ health_ret # NotCalled /\ ~health_ret.model_loaded
    /\ req.NDVI = <<-50, 40>>
    /\ psm_ret # NotCalled /\ psm_ret.branch = "heuristic"
    /\ psm_ret.map = <<<<100, 60>>>>

\* C12: every feature matrix handed to predict_proba has exactly the six
\* columns ndvi, ndre, msi, zscore_ndvi, nir, swir of build_feature_stack,
\* in that order, and they are the columns the deployed artifact was
\* fitted on.
C12_ColumnContract ==
    (psm_ret # NotCalled /\ psm_ret.branch = "model" /\ psm_ret.status = "ok") =>
        /\ psm_ret.columns = FeatureColumns
        /\ psm_ret.columns = artifact

\* C13: the map predict_stress_map returns to run_analysis, which passes it
\* to build_stress_heatmap, has the image's (H, W) shape and every element
\* in [0, 1], in the model-backed and in the heuristic mode, whatever the
\* classifier answered.
C13_WellFormedMap ==
    (psm_ret # NotCalled /\ psm_ret.status = "ok") =>
        /\ Len(psm_ret.map) = req.shape[1]
        /\ \A r \in 1..req.shape[1] :
              /\ Len(psm_ret.map[r]) = req.shape[2]
              /\ \A c \in 1..req.shape[2] :
                    psm_ret.map[r][c] >= 0 /\ psm_ret.map[r][c] <= 100

\* q is a float nearest to num / den: it is off by at most half a unit of
\* its last place
IsQuotient(q, num, den) ==
    IF num[1] = 0 THEN q = Zero
    ELSE /\ q[1] # 0
         /\ LET a == q[2] + den[2]
                b == num[2]
                e == Min(a, b)
            IN  2 * Abs(q[1] * den[1] * Pow2(a - e) - num[1] * Pow2(b - e))
                    <= Abs(den[1]) * Pow2(a - e)

\* x <= y for floats, compared exactly
FLeq(x, y) ==
    IF x[1] <= 0 /\ y[1] >= 0 THEN TRUE
    ELSE IF x[1] >= 0 /\ y[1] <= 0 THEN FALSE
    ELSE IF x[1] > 0
         THEN x[2] < y[2] \/ (x[2] = y[2] /\ x[1] <= y[1])
         ELSE x[2] > y[2] \/ (x[2] = y[2] /\ x[1] <= y[1])

\* what the rule "0 when |den| is at most 1e-10, else the quotient" gives
SafeQuotientOk(ret, num, den) ==
    IF FLeq(FAbs(den), SafeEps) THEN ret = Zero ELSE IsQuotient(ret, num, den)

\* what the rule "0 when |den| is below 1e-10, else the quotient" gives
BelowQuotientOk(ret, num, den) ==
    IF FLeq(FAbs(den), SafeEps) /\ FAbs(den) # SafeEps
    THEN ret = Zero
    ELSE den[1] # 0 /\ IsQuotient(ret, num, den)

C15_FlatField ==
    zscore_ret # NotCalled =>
        /\ zscore_ret.shape = index_map.shape
        /\ Len(zscore_ret.data) = Len(index_map.data)
        /\ \A i \in 1..Len(zscore_ret.data) : zscore_ret.data[i][1] >= 0
        /\ (\A i \in 1..Len(index_map.data) : index_map.data[i] = index_map.data[1]) =>
               \A i \in 1..Len(zscore_ret.data) : zscore_ret.data[i] = Zero

====
